---- MODULE Spec2Model ----
(***************************************************************************)
(* Personal assistant: the address-book record store.                      *)
(*                                                                         *)
(* Two variants of the program are modelled:                               *)
(*   - the ID-keyed program (src/unnamed/part_000): AddressBook with       *)
(*     next_id / free_ids, delete_record_by_id, pickle save and load;      *)
(*   - the name-keyed program (src/project_end.py): AddressBook keyed by   *)
(*     record.name.value, upcoming_birthdays.                              *)
(* find_record and days_to_birthday/days_to_birthdate are the same code in *)
(* both files and are modelled once.                                       *)
(*                                                                         *)
(* Strings are sequences of one-character strings.  A dict is a sequence   *)
(* of entries [key, rec] in insertion order (Python dicts iterate in       *)
(* insertion order).  A Field object is modelled by its .value.            *)
(***************************************************************************)
EXTENDS Integers, Sequences, FiniteSets, TLC

VARIABLES
    pc,         \* ID-keyed program: "running" (in the menu loop) or "exited"
    data,       \* ID-keyed AddressBook.data
    next_id,    \* ID-keyed AddressBook.next_id
    free_ids,   \* ID-keyed AddressBook.free_ids
    file,       \* contents of address_book.pkl
    last,       \* the last operation of the ID-keyed program and its outcome
    reuse,      \* observer: a deletion followed directly by add_record calls
    f_data,     \* find_record: the book searched
    f_term,     \* find_record: search_term
    f_found,    \* find_record: found_records (records named by their keys)
    d_birth,    \* days_to_birthday: self.birthday.value
    d_now,      \* days_to_birthday: datetime.now()
    d_days,     \* days_to_birthday: the value returned, or the error raised
    n_data,     \* name-keyed AddressBook.data
    n_today,    \* name-keyed program: datetime.now().date() at the last query
    n_last,     \* name-keyed program: the last operation and its outcome
    r_phones,   \* one Record: self.phones, a list of Phone objects
    r_emails,   \* one Record: self.emails, a list of Email objects
    r_last,     \* one Record: the last call on it and its outcome
    it_data,    \* traversal: the book traversed
    it_current, \* traversal: self.current
    it_pc,      \* traversal: where each of the two for-loops over the book is
    it_got,     \* traversal: the batches each for-loop received
    it_since,   \* traversal: the records yielded since the last __iter__ call
    v_text,     \* validate_phone: value
    v_valid,    \* validate_phone: the value returned
    b_pc,       \* AssistantBot: the menu main() is in, "crashed" or "saved"
    b_book,     \* AssistantBot: self.book.data
    b_notes,    \* AssistantBot: self.notebook.notes
    b_file,     \* AssistantBot: contents of address_book.pkl and notes.pkl
    b_last      \* AssistantBot: the last menu choice and the error it raised

idVars   == <<pc, data, next_id, free_ids, file, last, reuse>>
findVars == <<f_data, f_term, f_found>>
dateVars == <<d_birth, d_now, d_days>>
nameVars == <<n_data, n_today, n_last>>
recVars  == <<r_phones, r_emails, r_last>>
iterVars == <<it_data, it_current, it_pc, it_got, it_since>>
valVars  == <<v_text, v_valid>>
botVars  == <<b_pc, b_book, b_notes, b_file, b_last>>
vars     == <<pc, data, next_id, free_ids, file, last, reuse,
              f_data, f_term, f_found, d_birth, d_now, d_days,
              n_data, n_today, n_last, r_phones, r_emails, r_last,
              it_data, it_current, it_pc, it_got, it_since, v_text, v_valid,
              b_pc, b_book, b_notes, b_file, b_last>>

otherThanId   == <<findVars, dateVars, nameVars, recVars, iterVars, valVars, botVars>>
otherThanFind == <<idVars, dateVars, nameVars, recVars, iterVars, valVars, botVars>>
otherThanDate == <<idVars, findVars, nameVars, recVars, iterVars, valVars, botVars>>
otherThanName == <<idVars, findVars, dateVars, recVars, iterVars, valVars, botVars>>
otherThanRec  == <<idVars, findVars, dateVars, nameVars, iterVars, valVars, botVars>>
otherThanIter == <<idVars, findVars, dateVars, nameVars, recVars, valVars, botVars>>
otherThanVal  == <<idVars, findVars, dateVars, nameVars, recVars, iterVars, botVars>>
otherThanBot  == <<idVars, findVars, dateVars, nameVars, recVars, iterVars, valVars>>

-----------------------------------------------------------------------------
(* Bounds of the model *)

\* most records held by the ID-keyed book at one time
MaxRecords == 2

\* most records of a book searched by find_record
MaxFindRecords == 2

\* most entries of a record's phone list, and of its email list
MaxFields == 2

\* most records of a book traversed in batches
MaxIterRecords == 11

\* longest string given to validate_phone
MaxPhoneTextLen == 10

\* most notes of the notebook of AssistantBot
MaxNotes == 1

\* the current date ranges over NumYears years starting at FirstYear
FirstYear == 2023

NumYears == 2

-----------------------------------------------------------------------------
(* Python values *)

\* None, where a record has no birthdate
None == <<>>

Min(S) == CHOOSE x \in S : \A y \in S : x <= y

\* str.lower() on the characters the model uses
LowerChar(c) ==
    CASE c = "A" -> "a"
      [] c = "J" -> "j"
      [] c = "N" -> "n"
      [] OTHER -> c

lower(s) == [i \in 1..Len(s) |-> LowerChar(s[i])]

\* Python's `s in t` for strings
IsSubstring(s, t) ==
    \E i \in 0..(Len(t) - Len(s)) : SubSeq(t, i + 1, i + Len(s)) = s

IsSpace(c) == c = " "

RECURSIVE lstrip(_)
lstrip(s) == IF s # <<>> /\ IsSpace(Head(s)) THEN lstrip(Tail(s)) ELSE s

RECURSIVE rstrip(_)
rstrip(s) ==
    IF s # <<>> /\ IsSpace(s[Len(s)]) THEN rstrip(SubSeq(s, 1, Len(s) - 1)) ELSE s

\* str.strip()
strip(s) == rstrip(lstrip(s))

\* str.replace(old, ""): every non-overlapping occurrence, left to right
RECURSIVE remove_all(_, _)
remove_all(s, old) ==
    IF Len(s) < Len(old) THEN s
    ELSE IF SubSeq(s, 1, Len(old)) = old
         THEN remove_all(SubSeq(s, Len(old) + 1, Len(s)), old)
         ELSE <<Head(s)>> \o remove_all(Tail(s), old)

Digits == {"0", "1", "2", "3", "4", "5", "6", "7", "8", "9"}

DigitVal(c) ==
    CASE c = "0" -> 0 [] c = "1" -> 1 [] c = "2" -> 2 [] c = "3" -> 3
      [] c = "4" -> 4 [] c = "5" -> 5 [] c = "6" -> 6 [] c = "7" -> 7
      [] c = "8" -> 8 [] c = "9" -> 9

RECURSIVE DecVal(_)
DecVal(s) == IF s = <<>> THEN 0 ELSE 10 * DecVal(SubSeq(s, 1, Len(s) - 1)) + DigitVal(s[Len(s)])

\* int(s): surrounding whitespace is ignored, an optional sign, then digits;
\* anything else raises ValueError (ok = FALSE)
int(s) ==
    LET t == strip(s)
        signed == t # <<>> /\ Head(t) \in {"-", "+"}
        body == IF signed THEN Tail(t) ELSE t
    IN  IF body = <<>> \/ \E i \in 1..Len(body) : body[i] \notin Digits
        THEN [ok |-> FALSE, val |-> 0]
        ELSE [ok |-> TRUE,
              val |-> IF signed /\ Head(t) = "-" THEN 0 - DecVal(body) ELSE DecVal(body)]

-----------------------------------------------------------------------------
(* dict operations on a sequence of entries [key, rec] *)

Keys(d) == {d[i].key : i \in 1..Len(d)}

Has(d, k) == k \in Keys(d)

Get(d, k) == (CHOOSE i \in 1..Len(d) : d[i].key = k)

\* d[k] = r : a new key is appended, an existing key keeps its position
DictSet(d, k, r) ==
    IF Has(d, k)
    THEN [i \in 1..Len(d) |-> IF d[i].key = k THEN [key |-> k, rec |-> r] ELSE d[i]]
    ELSE Append(d, [key |-> k, rec |-> r])

\* del d[k]
DictDel(d, k) == SelectSeq(d, LAMBDA e : e.key # k)

\* the logical mapping key -> record
Mapping(d) == [k \in Keys(d) |-> d[Get(d, k)].rec]

-----------------------------------------------------------------------------
(* The ID-keyed program: records *)

\* Record.__init__ and the add_* calls of create_record: the fields of a record
\* before the book assigns its id (record.id is None, modelled as 0)
Record(name, phones, emails, birthdate) ==
    [id |-> 0, name |-> name, phone_numbers |-> phones,
     email_addresses |-> emails, birthdate |-> birthdate]

NameJan == <<"J", "a", "n">>

NameAnna == <<"A", "n", "n", "a">>

\* the records create_record hands to add_record in the ID-keyed model
RecordPool == {Record(NameJan, <<>>, <<>>, None), Record(NameAnna, <<>>, <<>>, None)}

-----------------------------------------------------------------------------
(* The ID-keyed program: AddressBook *)

\* the while loop of add_record: advance next_id while it is in use
RECURSIVE SkipUsed(_, _, _)
SkipUsed(d, n, f) == IF Has(d, n) \/ n \in f THEN SkipUsed(d, n + 1, f) ELSE n

\* add_record without its while loop: next_id is taken as it is
AllocId_NoSkip(d, n, f) ==
    IF f # {}
    THEN [id |-> Min(f), next_id |-> n, free_ids |-> f \ {Min(f)}]
    ELSE [id |-> n, next_id |-> n + 1, free_ids |-> f]

\* add_record taking max(self.free_ids) in place of min(self.free_ids)
AllocId_LargestFreed(d, n, f) ==
    LET n1 == SkipUsed(d, n, f)
        top == CHOOSE x \in f : \A y \in f : y <= x
    IN  IF f # {}
        THEN [id |-> top, next_id |-> n1, free_ids |-> f \ {top}]
        ELSE [id |-> n1, next_id |-> n1 + 1, free_ids |-> f]

\* the identifier add_record assigns, with next_id and free_ids afterwards
AllocId(d, n, f) ==
    LET n1 == SkipUsed(d, n, f)
    IN  IF f # {}
        THEN [id |-> Min(f), next_id |-> n1, free_ids |-> f \ {Min(f)}]
        ELSE [id |-> n1, next_id |-> n1 + 1, free_ids |-> f]

\* AddressBook.add_record
add_record(d, n, f, record) ==
    LET a == AllocId(d, n, f)
    IN  [data |-> DictSet(d, a.id, [record EXCEPT !.id = a.id]),
         next_id |-> a.next_id, free_ids |-> a.free_ids, id |-> a.id]

\* the deletion without self.free_ids.add(record_id)
delete_by_text_NoRelease(d, f, text) ==
    LET p == int(text)
    IN  IF p.ok /\ Has(d, p.val)
        THEN [data |-> DictDel(d, p.val), free_ids |-> f, deleted |-> TRUE, id |-> p.val]
        ELSE [data |-> d, free_ids |-> f, deleted |-> FALSE, id |-> 0]

\* the deletion with self.free_ids.add(record_id) placed after the if/else
delete_by_text_ReleasesAbsent(d, f, text) ==
    LET p == int(text)
    IN  IF p.ok /\ Has(d, p.val)
        THEN [data |-> DictDel(d, p.val), free_ids |-> f \cup {p.val},
              deleted |-> TRUE, id |-> p.val]
        ELSE IF p.ok
             THEN [data |-> d, free_ids |-> f \cup {p.val}, deleted |-> FALSE, id |-> 0]
             ELSE [data |-> d, free_ids |-> f, deleted |-> FALSE, id |-> 0]

\* the try block shared by delete_record_by_id and delete_record:
\* int() of the text, then removal when the id is a key
delete_by_text(d, f, text) ==
    LET p == int(text)
    IN  IF p.ok /\ Has(d, p.val)
        THEN [data |-> DictDel(d, p.val), free_ids |-> f \cup {p.val},
              deleted |-> TRUE, id |-> p.val]
        ELSE [data |-> d, free_ids |-> f, deleted |-> FALSE, id |-> 0]

IdPrefix == <<"I", "D", ":", " ">>

\* AddressBook.delete_record_by_id, from the text the user typed
delete_record_by_id(d, f, user_input) ==
    delete_by_text(d, f, strip(remove_all(strip(user_input), IdPrefix)))

\* AddressBook.find_records_by_name
find_records_by_name(d, name) ==
    SelectSeq(d, LAMBDA e : IsSubstring(lower(name), lower(e.rec.name)))

\* AddressBook.delete_record, from the texts the user types: the id is asked
\* for (typed) only when find_records_by_name found a record
delete_record(d, f, name_to_delete, id_text) ==
    IF find_records_by_name(d, name_to_delete) = <<>>
    THEN [data |-> d, free_ids |-> f, deleted |-> FALSE, id |-> 0, typed |-> <<>>]
    ELSE [data |-> delete_by_text(d, f, id_text).data,
          free_ids |-> delete_by_text(d, f, id_text).free_ids,
          deleted |-> delete_by_text(d, f, id_text).deleted,
          id |-> delete_by_text(d, f, id_text).id,
          typed |-> id_text]

-----------------------------------------------------------------------------
(* The ID-keyed program: persistence *)

\* address_book.pkl: missing, unreadable (a write that failed part-way), or
\* holding the pickled items
NoFile == [kind |-> "missing", items |-> <<>>]

Corrupt == [kind |-> "unreadable", items |-> <<>>]

\* pickle.dump(book.data): the items of the dict, in order
pickle_dump(d) == [i \in 1..Len(d) |-> <<d[i].key, d[i].rec>>]

\* pickle.load: the dict rebuilt from the items
RECURSIVE pickle_load(_)
pickle_load(items) ==
    IF items = <<>> THEN <<>>
    ELSE LET it == items[Len(items)]
         IN  DictSet(pickle_load(SubSeq(items, 1, Len(items) - 1)), it[1], it[2])

\* load_address_book putting the loaded records back with fresh ids 1, 2, ...
load_address_book_Renumbers(fl) ==
    IF fl.kind # "pickle"
    THEN [data |-> <<>>, next_id |-> 1, free_ids |-> {}]
    ELSE [data |-> [i \in 1..Len(fl.items) |->
                      [key |-> i, rec |-> [fl.items[i][2] EXCEPT !.id = i]]],
          next_id |-> Len(fl.items) + 1, free_ids |-> {}]

\* load_address_book: a new AddressBook (next_id 1, no free ids) holding the
\* loaded dict; an empty book when the file is missing or unreadable
load_address_book(fl) ==
    IF fl.kind # "pickle"
    THEN [data |-> <<>>, next_id |-> 1, free_ids |-> {}]
    ELSE [data |-> pickle_load(fl.items), next_id |-> 1, free_ids |-> {}]

\* save_address_book when the write succeeds
save_address_book(d) == [kind |-> "pickle", items |-> pickle_dump(d)]

-----------------------------------------------------------------------------
(* The ID-keyed program as a state machine.  main() loads the book when the
   process starts, runs the menu loop, and saves the book when the user
   chooses exit.  A process that is killed does not save. *)

\* texts typed at "Podaj ID rekordu, który chcesz usunąć"
IdTexts ==
    {<<"1">>, <<" ", "2">>, <<"3">>, <<"I", "D", ":", " ", "1">>,
     <<"-", "1">>, <<"1", "x">>, <<>>}

\* texts typed at "Podaj imię i nazwisko osoby, którą chcesz usunąć"
NameTexts == {<<"a", "N">>, <<"x">>}

\* texts typed at the second prompt of delete_record
IdTextsByName == {<<"2">>, <<" ", "3">>, <<"x">>}

NoOp == [op |-> "none", id |-> 0, ok |-> FALSE, after |-> "running"]

NoReuse == [stage |-> 0, k |-> 0, first |-> 0, second |-> 0,
            smaller |-> FALSE, below |-> FALSE]

\* the observer of "delete k, then add, then add"
ReuseAfterDelete(k) ==
    [stage |-> 1, k |-> k, first |-> 0, second |-> 0,
     smaller |-> \E j \in free_ids : j < k, below |-> k < next_id]

ReuseAfterAdd(id) ==
    CASE reuse.stage = 1 -> [reuse EXCEPT !.stage = 2, !.first = id]
      [] reuse.stage = 2 -> [reuse EXCEPT !.stage = 3, !.second = id]
      [] OTHER -> NoReuse

IdInit ==
    /\ pc = "running"
    /\ data = <<>>
    /\ next_id = 1
    /\ free_ids = {}
    /\ file = NoFile
    /\ last = NoOp
    /\ reuse = NoReuse

\* contact action 1: create_record, book.add_record
AddRecord(record) ==
    /\ pc = "running"
    /\ Len(data) < MaxRecords
    /\ LET b == add_record(data, next_id, free_ids, record)
       IN  /\ data' = b.data
           /\ next_id' = b.next_id
           /\ free_ids' = b.free_ids
           /\ last' = [op |-> "add_record", id |-> b.id, ok |-> TRUE,
                       after |-> pc]
           /\ reuse' = ReuseAfterAdd(b.id)
    /\ UNCHANGED <<pc, file>>
    /\ UNCHANGED otherThanId

\* contact action 3: book.delete_record_by_id
DeleteRecordById(user_input) ==
    /\ pc = "running"
    /\ LET b == delete_record_by_id(data, free_ids, user_input)
       IN  /\ data' = b.data
           /\ free_ids' = b.free_ids
           /\ last' = [op |-> "delete_record_by_id",
                       id |-> b.id, ok |-> b.deleted, after |-> pc]
           /\ reuse' = IF b.deleted THEN ReuseAfterDelete(b.id) ELSE NoReuse
    /\ UNCHANGED <<pc, next_id, file>>
    /\ UNCHANGED otherThanId

\* book.delete_record
DeleteRecord(name_to_delete, id_text) ==
    /\ pc = "running"
    /\ LET b == delete_record(data, free_ids, name_to_delete, id_text)
       IN  /\ data' = b.data
           /\ free_ids' = b.free_ids
           /\ last' = [op |-> "delete_record",
                       id |-> b.id, ok |-> b.deleted, after |-> pc]
           /\ reuse' = IF b.deleted THEN ReuseAfterDelete(b.id) ELSE NoReuse
    /\ UNCHANGED <<pc, next_id, file>>
    /\ UNCHANGED otherThanId

\* action 3 of the main menu: leave the loop, save_address_book writes the file
Exit ==
    /\ pc = "running"
    /\ pc' = "exited"
    /\ file' = save_address_book(data)
    /\ last' = [op |-> "save_address_book", id |-> 0, ok |-> TRUE,
                after |-> pc]
    /\ reuse' = NoReuse
    /\ UNCHANGED <<data, next_id, free_ids>>
    /\ UNCHANGED otherThanId

\* the same, when the write fails: the exception is caught and printed; the
\* file is as it was (open failed) or unreadable (dump failed part-way)
ExitSaveFails ==
    /\ pc = "running"
    /\ pc' = "exited"
    /\ file' \in {file, Corrupt}
    /\ last' = [op |-> "save_address_book", id |-> 0, ok |-> FALSE,
                after |-> pc]
    /\ reuse' = NoReuse
    /\ UNCHANGED <<data, next_id, free_ids>>
    /\ UNCHANGED otherThanId

\* a new process (after exit, or after the running one was killed):
\* book = load_address_book()
Start ==
    /\ LET b == load_address_book(file)
       IN  /\ data' = b.data
           /\ next_id' = b.next_id
           /\ free_ids' = b.free_ids
    /\ pc' = "running"
    /\ last' = [op |-> "load_address_book", id |-> 0,
                ok |-> file.kind = "pickle", after |-> pc]
    /\ reuse' = NoReuse
    /\ UNCHANGED file
    /\ UNCHANGED otherThanId

-----------------------------------------------------------------------------
(* Calendar: datetime.date / datetime.datetime of the standard library *)

IsLeap(y) == (y % 4 = 0 /\ y % 100 # 0) \/ y % 400 = 0

DaysInMonth(y, m) ==
    CASE m \in {1, 3, 5, 7, 8, 10, 12} -> 31
      [] m \in {4, 6, 9, 11} -> 30
      [] OTHER -> IF IsLeap(y) THEN 29 ELSE 28

\* a date the datetime module accepts
ValidDate(y, m, d) ==
    /\ y \in 1..9999
    /\ m \in 1..12
    /\ d \in 1..DaysInMonth(y, m)

RECURSIVE DaysBeforeMonth(_, _)
DaysBeforeMonth(y, m) ==
    IF m = 1 THEN 0 ELSE DaysBeforeMonth(y, m - 1) + DaysInMonth(y, m - 1)

\* date.toordinal()
Ordinal(y, m, d) ==
    (y - 1) * 365 + ((y - 1) \div 4) - ((y - 1) \div 100) + ((y - 1) \div 400)
    + DaysBeforeMonth(y, m) + d

SecondsPerDay == 24 * 60 * 60

\* Birthday.validate_birthday / BirthDate.validate_birthdate on the text
\* "y-m-d": strptime succeeds exactly on the dates of the calendar
validate_birthday(value) == ValidDate(value[1], value[2], value[3])

\* date.replace(year=y) of the date with month m and day d: raises ValueError
\* (ok = FALSE) when year y has no such day
replace_year(m, d, y) ==
    IF ValidDate(y, m, d)
    THEN [ok |-> TRUE, ordinal |-> Ordinal(y, m, d)]
    ELSE [ok |-> FALSE, ordinal |-> 0]

Raised == [kind |-> "ValueError", days |-> 0]

NoBirthday == [kind |-> "Brak daty urodzenia", days |-> 0]

NotCalled == [kind |-> "not called", days |-> 0]

\* timedelta.days of (the midnight that starts day `ordinal`) - today
DeltaDays(ordinal, today) ==
    ((ordinal - Ordinal(today.y, today.m, today.d)) * SecondsPerDay - today.s)
        \div SecondsPerDay

\* today > next_birthday, next_birthday being a midnight
IsAfterMidnightOf(today, ordinal) ==
    \/ Ordinal(today.y, today.m, today.d) > ordinal
    \/ Ordinal(today.y, today.m, today.d) = ordinal /\ today.s > 0

\* days_to_birthday without the roll to next year
days_to_birthday_NoRollover(birthday, today) ==
    IF birthday = None THEN NoBirthday
    ELSE LET this_year == replace_year(birthday[2], birthday[3], today.y)
         IN  IF ~this_year.ok THEN Raised
             ELSE [kind |-> "days", days |-> DeltaDays(this_year.ordinal, today)]

\* Record.days_to_birthday / Record.days_to_birthdate; today is datetime.now()
days_to_birthday(birthday, today) ==
    IF birthday = None THEN NoBirthday
    ELSE LET this_year == replace_year(birthday[2], birthday[3], today.y)
             next_year == replace_year(birthday[2], birthday[3], today.y + 1)
         IN  IF ~this_year.ok THEN Raised
             ELSE IF IsAfterMidnightOf(today, this_year.ordinal)
                  THEN IF ~next_year.ok THEN Raised
                       ELSE [kind |-> "days",
                             days |-> DeltaDays(next_year.ordinal, today)]
                  ELSE [kind |-> "days", days |-> DeltaDays(this_year.ordinal, today)]

\* the texts offered as a birthdate
BirthdayTexts ==
    {<<y, m, d>> : y \in {2000, 2001}, m \in {1, 2, 3, 12}, d \in {1, 15, 28, 29, 30, 31}}

\* the birthdates a record can hold: Birthday(value) raises on the others
Birthdays == {b \in BirthdayTexts : validate_birthday(b)}

Years == FirstYear..(FirstYear + NumYears - 1)

TimesOfDay == {0, 12 * 60 * 60, SecondsPerDay - 1}

\* the values of datetime.now()
Nows ==
    {t \in [y : Years, m : 1..12, d : 1..31, s : TimesOfDay] : ValidDate(t.y, t.m, t.d)}

DateInit ==
    /\ d_birth \in Birthdays
    /\ d_now \in Nows
    /\ d_days = NotCalled

\* a call of record.days_to_birthday()
DaysToBirthday ==
    /\ d_days = NotCalled
    /\ d_days' = days_to_birthday(d_birth, d_now)
    /\ UNCHANGED <<d_birth, d_now>>
    /\ UNCHANGED otherThanDate

DateNext == DaysToBirthday

-----------------------------------------------------------------------------
(* find_record (the same code in both programs) *)

\* find_record comparing search_term, not search_term.lower(), with the name
FoundFor_TermNotLowered(e, search_term) ==
    IF IsSubstring(search_term, lower(e.rec.name))
    THEN <<e.key>>
    ELSE (IF \E i \in 1..Len(e.rec.phone_numbers) :
                IsSubstring(search_term, e.rec.phone_numbers[i])
          THEN <<e.key>> ELSE <<>>)
         \o
         (IF \E i \in 1..Len(e.rec.email_addresses) :
                IsSubstring(search_term, e.rec.email_addresses[i])
          THEN <<e.key>> ELSE <<>>)

\* what one record adds to found_records: the name test with its `continue`,
\* then the phone loop and the email loop, each with its `break`
FoundFor(e, search_term) ==
    IF IsSubstring(lower(search_term), lower(e.rec.name))
    THEN <<e.key>>
    ELSE (IF \E i \in 1..Len(e.rec.phone_numbers) :
                IsSubstring(search_term, e.rec.phone_numbers[i])
          THEN <<e.key>> ELSE <<>>)
         \o
         (IF \E i \in 1..Len(e.rec.email_addresses) :
                IsSubstring(search_term, e.rec.email_addresses[i])
          THEN <<e.key>> ELSE <<>>)

\* AddressBook.find_record: the records found, each named by its key
RECURSIVE find_record(_, _)
find_record(d, search_term) ==
    IF d = <<>> THEN <<>>
    ELSE FoundFor(Head(d), search_term) \o find_record(Tail(d), search_term)

Phone1 == <<"1", "2", "3", "4", "5", "6", "7", "8", "9">>

Phone2 == <<"9", "8", "7", "6", "5", "4", "3", "2", "1">>

Email1 == <<"a", "1", "@", "b", ".", "c">>

Email2 == <<"J", "@", "b", ".", "c">>

\* the records of the books searched
FindPool ==
    {Record(n, ps, es, None) :
        n \in {NameJan, <<"a", "1">>},
        ps \in {<<>>, <<Phone1>>, <<Phone2, Phone1>>},
        es \in {<<>>, <<Email1>>, <<Email2, Email1>>}}

\* a book holding the records rs[1], rs[2], ... under the ids 1, 2, ...
BookOf(rs) == [i \in 1..Len(rs) |-> [key |-> i, rec |-> [rs[i] EXCEPT !.id = i]]]

FindBooks ==
    UNION {{BookOf(rs) : rs \in [1..n -> FindPool]} : n \in 0..MaxFindRecords}

SearchTerms ==
    {<<>>, <<"1">>, <<"j">>, <<"J">>, <<"A">>, <<"a", "N">>, <<"a", "1">>,
     <<"@">>, <<"9", "8">>, <<"x">>}

NotSearched == <<0>>

FindInit ==
    /\ f_data \in FindBooks
    /\ f_term \in SearchTerms
    /\ f_found = NotSearched

\* contact action 2: book.find_record(search_term)
FindRecord ==
    /\ f_found = NotSearched
    /\ f_found' = find_record(f_data, f_term)
    /\ UNCHANGED <<f_data, f_term>>
    /\ UNCHANGED otherThanFind

FindNext == FindRecord

-----------------------------------------------------------------------------
(* The name-keyed program (src/project_end.py) *)

\* the records create_record hands to add_record in the name-keyed model
NamePool ==
    {Record(n, <<>>, <<>>, b) :
        n \in {NameJan, NameAnna},
        b \in {None, <<2000, 3, 15>>, <<2000, 2, 29>>, <<2001, 12, 31>>}}
    \cup {Record(NameJan, <<Phone1>>, <<Email1>>, None)}

\* AddressBook.add_record of the name-keyed book
add_record_by_name(d, record) == DictSet(d, record.name, record)

\* AddressBook.delete_record of the name-keyed book
delete_record_by_name(d, name) == IF Has(d, name) THEN DictDel(d, name) ELSE d

\* the body of the loop of upcoming_birthdays for one record with a birthday:
\* the days from today to next_birthday, or the ValueError of date.replace
DaysTo(birthday, today) ==
    LET this_year == replace_year(birthday[2], birthday[3], today.y)
        next_year == replace_year(birthday[2], birthday[3], today.y + 1)
        t == Ordinal(today.y, today.m, today.d)
    IN  IF ~this_year.ok THEN Raised
        ELSE IF t > this_year.ordinal
             THEN IF ~next_year.ok THEN Raised
                  ELSE [kind |-> "days", days |-> next_year.ordinal - t]
             ELSE [kind |-> "days", days |-> this_year.ordinal - t]

\* AddressBook.upcoming_birthdays: the names joined into `element`, or the
\* ValueError that leaves the loop
upcoming_birthdays(d, days, today) ==
    LET with_birthday == SelectSeq(d, LAMBDA e : e.rec.birthdate # None)
        chosen == SelectSeq(with_birthday,
                            LAMBDA e : LET r == DaysTo(e.rec.birthdate, today)
                                       IN  r.kind = "days" /\ r.days <= days)
    IN  IF \E i \in 1..Len(with_birthday) :
               DaysTo(with_birthday[i].rec.birthdate, today).kind = "ValueError"
        THEN [raised |-> TRUE, names |-> <<>>]
        ELSE [raised |-> FALSE,
              names |-> [i \in 1..Len(chosen) |-> chosen[i].rec.name]]

\* the values of datetime.now().date() when upcoming_birthdays is called
QueryDates ==
    {[y |-> FirstYear + 1, m |-> 3, d |-> 10], [y |-> FirstYear + 1, m |-> 3, d |-> 15],
     [y |-> FirstYear + 1, m |-> 3, d |-> 20], [y |-> FirstYear + 1, m |-> 2, d |-> 28],
     [y |-> FirstYear, m |-> 12, d |-> 31], [y |-> FirstYear, m |-> 1, d |-> 1]}

\* the numbers typed at "Wpisz liczbe dni"
DayCounts == {0 - 1, 0, 5, 60, 366}

NoDate == [y |-> 0, m |-> 0, d |-> 0]

NoQuery == [op |-> "none", days |-> 0, raised |-> FALSE, names |-> <<>>]

NameInit ==
    /\ n_data = <<>>
    /\ n_today = NoDate
    /\ n_last = NoQuery

\* contact action 1: create_record, book.add_record
NameAddRecord(record) ==
    /\ n_data' = add_record_by_name(n_data, record)
    /\ n_last' = [NoQuery EXCEPT !.op = "add_record"]
    /\ n_today' = NoDate
    /\ UNCHANGED otherThanName

\* book.delete_record(name)
NameDeleteRecord(name) ==
    /\ n_data' = delete_record_by_name(n_data, name)
    /\ n_last' = [NoQuery EXCEPT !.op = "delete_record"]
    /\ n_today' = NoDate
    /\ UNCHANGED otherThanName

\* contact action 6: book.upcoming_birthdays(days)
UpcomingBirthdays(days, today) ==
    /\ LET r == upcoming_birthdays(n_data, days, today)
       IN  n_last' = [op |-> "upcoming_birthdays", days |-> days,
                      raised |-> r.raised, names |-> r.names]
    /\ n_today' = today
    /\ UNCHANGED n_data
    /\ UNCHANGED otherThanName

-----------------------------------------------------------------------------
(* One Record and its phone and email lists.  A list is the sequence of the
   values of its entries; its entries are distinct Field objects, each
   constructed by the caller of add_phone / add_email.  An object passed to a
   call is [pos, value]: pos = i > 0 for the object that is entry i of the
   list, pos = 0 for an object constructed for the call. *)

\* lst[i] == x.  Field defines no __eq__, so two Field objects are equal
\* exactly when they are the same object, whatever their values.
FieldEq(lst, i, x) == x.pos = i

\* x in lst
InList(lst, x) == \E i \in 1..Len(lst) : FieldEq(lst, i, x)

\* lst.remove(x): the first element equal to x is removed; ValueError
\* (raised) when there is none
list_remove(lst, x) ==
    IF InList(lst, x)
    THEN LET i == Min({j \in 1..Len(lst) : FieldEq(lst, j, x)})
         IN  [raised |-> FALSE,
              list |-> SubSeq(lst, 1, i - 1) \o SubSeq(lst, i + 1, Len(lst))]
    ELSE [raised |-> TRUE, list |-> lst]

\* Record.add_phone / Record.add_email
add_phone(lst, phone) == Append(lst, phone.value)

\* Record.remove_phone / Record.remove_email
remove_phone(lst, phone) == list_remove(lst, phone)

\* edit_phone with add_phone called before remove_phone
edit_phone_AddsFirst(lst, old_phone, new_phone) ==
    [raised |-> remove_phone(add_phone(lst, new_phone), old_phone).raised,
     list |-> remove_phone(add_phone(lst, new_phone), old_phone).list]

\* Record.edit_phone / Record.edit_email: the ValueError of remove_phone leaves
\* the method before add_phone is called
edit_phone(lst, old_phone, new_phone) ==
    IF remove_phone(lst, old_phone).raised
    THEN [raised |-> TRUE, list |-> lst]
    ELSE [raised |-> FALSE, list |-> add_phone(remove_phone(lst, old_phone).list, new_phone)]

PhoneValues == {Phone1, Phone2}

EmailValues == {Email1, Email2}

\* Phone(v) / Email(v): an object constructed for the call
NewField(v) == [pos |-> 0, value |-> v]

\* the objects a caller can pass: an entry of the list, or a new object
Passable(lst, vals) ==
    {[pos |-> i, value |-> lst[i]] : i \in 1..Len(lst)} \cup {NewField(v) : v \in vals}

NoCall == [op |-> "none", raised |-> FALSE]

RecInit ==
    /\ r_phones = <<>>
    /\ r_emails = <<>>
    /\ r_last = NoCall

\* record.add_phone(Phone(v))
AddPhone(v) ==
    /\ Len(r_phones) < MaxFields
    /\ r_phones' = add_phone(r_phones, NewField(v))
    /\ r_last' = [op |-> "add_phone", raised |-> FALSE]
    /\ UNCHANGED r_emails
    /\ UNCHANGED otherThanRec

\* record.remove_phone(p)
RemovePhone(p) ==
    /\ r_phones' = remove_phone(r_phones, p).list
    /\ r_last' = [op |-> "remove_phone", raised |-> remove_phone(r_phones, p).raised]
    /\ UNCHANGED r_emails
    /\ UNCHANGED otherThanRec

\* record.edit_phone(old, Phone(v))
EditPhone(old, v) ==
    /\ r_phones' = edit_phone(r_phones, old, NewField(v)).list
    /\ r_last' = [op |-> "edit_phone",
                  raised |-> edit_phone(r_phones, old, NewField(v)).raised]
    /\ UNCHANGED r_emails
    /\ UNCHANGED otherThanRec

\* record.add_email(Email(v))
AddEmail(v) ==
    /\ Len(r_emails) < MaxFields
    /\ r_emails' = add_phone(r_emails, NewField(v))
    /\ r_last' = [op |-> "add_email", raised |-> FALSE]
    /\ UNCHANGED r_phones
    /\ UNCHANGED otherThanRec

\* record.remove_email(e)
RemoveEmail(e) ==
    /\ r_emails' = remove_phone(r_emails, e).list
    /\ r_last' = [op |-> "remove_email", raised |-> remove_phone(r_emails, e).raised]
    /\ UNCHANGED r_phones
    /\ UNCHANGED otherThanRec

\* record.edit_email(old, Email(v))
EditEmail(old, v) ==
    /\ r_emails' = edit_phone(r_emails, old, NewField(v)).list
    /\ r_last' = [op |-> "edit_email",
                  raised |-> edit_phone(r_emails, old, NewField(v)).raised]
    /\ UNCHANGED r_phones
    /\ UNCHANGED otherThanRec

RecNext ==
    \/ \E v \in PhoneValues : AddPhone(v)
    \/ \E p \in Passable(r_phones, PhoneValues) : RemovePhone(p)
    \/ \E old \in Passable(r_phones, PhoneValues), v \in PhoneValues : EditPhone(old, v)
    \/ \E v \in EmailValues : AddEmail(v)
    \/ \E e \in Passable(r_emails, EmailValues) : RemoveEmail(e)
    \/ \E old \in Passable(r_emails, EmailValues), v \in EmailValues : EditEmail(old, v)

-----------------------------------------------------------------------------
(* Traversal of an AddressBook in batches: __iter__ and __next__.  __iter__
   returns the book itself, so every for-loop over one book shares
   self.current. *)

\* the number of records of a batch
BatchSize == 5

\* list(self.data.values())
values(d) == [i \in 1..Len(d) |-> d[i].rec]

\* lst[a:b] for 0 <= a <= b
Slice(lst, a, b) == SubSeq(lst, a + 1, Min({b, Len(lst)}))

\* __iter__ that leaves self.current as it is
AddressBook_iter_KeepsCursor(current) == current

\* AddressBook.__iter__: self.current = 0
AddressBook_iter(current) == 0

\* __next__ with a slice one record too long
AddressBook_next_Overlapping(d, current) ==
    IF current < Len(d)
    THEN [stop |-> FALSE, records |-> Slice(values(d), current, current + BatchSize + 1),
          current |-> current + BatchSize]
    ELSE [stop |-> TRUE, records |-> <<>>, current |-> current]

\* AddressBook.__next__: the next batch, or StopIteration (stop)
AddressBook_next(d, current) ==
    IF current < Len(d)
    THEN [stop |-> FALSE, records |-> Slice(values(d), current, current + BatchSize),
          current |-> current + BatchSize]
    ELSE [stop |-> TRUE, records |-> <<>>, current |-> current]

\* the ids of a list of records
Ids(records) == [i \in 1..Len(records) |-> records[i].id]

\* the books traversed: n records under the ids 1 .. n
IterBooks ==
    {BookOf([i \in 1..n |-> Record(NameJan, <<>>, <<>>, None)]) : n \in 0..MaxIterRecords}

\* the two for-loops over the book
Loops == {"a", "b"}

Other(c) == IF c = "a" THEN "b" ELSE "a"

IterIdle ==
    /\ it_data = <<>>
    /\ it_current = 0
    /\ it_pc = [a |-> "idle", b |-> "idle", restarted |-> "no"]
    /\ it_got = [a |-> <<>>, b |-> <<>>]
    /\ it_since = <<>>

IterInit ==
    /\ it_data \in IterBooks
    /\ it_current = 0
    /\ it_pc = [a |-> "idle", b |-> "idle", restarted |-> "no"]
    /\ it_got = [a |-> <<>>, b |-> <<>>]
    /\ it_since = <<>>

\* for-loop c starts: iter(book).  restarted records that the other loop had
\* started and had not yet received StopIteration.
IterStart(c) ==
    /\ it_pc[c] = "idle"
    /\ it_current' = AddressBook_iter(it_current)
    /\ it_pc' = [it_pc EXCEPT ![c] = "running",
                              !.restarted = IF it_pc[Other(c)] = "running"
                                            THEN "yes" ELSE @]
    /\ it_since' = <<>>
    /\ UNCHANGED <<it_data, it_got>>
    /\ UNCHANGED otherThanIter

\* for-loop c asks for its next batch: next(book)
IterStep(c) ==
    /\ it_pc[c] = "running"
    /\ LET r == AddressBook_next(it_data, it_current)
       IN  /\ it_current' = r.current
           /\ it_pc' = [it_pc EXCEPT ![c] = IF r.stop THEN "done" ELSE @]
           /\ it_got' = [it_got EXCEPT ![c] = IF r.stop THEN @
                                               ELSE Append(@, Ids(r.records))]
           /\ it_since' = it_since \o Ids(r.records)
    /\ UNCHANGED it_data
    /\ UNCHANGED otherThanIter

IterNext ==
    \/ \E c \in Loops : IterStart(c)
    \/ \E c \in Loops : IterStep(c)

-----------------------------------------------------------------------------
(* validate_phone: re.compile(r"^\d{9}$").match(value) is not None *)

\* the n of \d{n}
PhoneLen == 9

Newline == "\n"

\* \d
IsDigit(c) == c \in Digits

\* the pattern matches from the start of value: PhoneLen digits, then $, which
\* matches at the end of the string and just before a newline that ends it
validate_phone(value) ==
    /\ Len(value) >= PhoneLen
    /\ \A i \in 1..PhoneLen : IsDigit(value[i])
    /\ \/ Len(value) = PhoneLen
       \/ Len(value) = PhoneLen + 1 /\ value[PhoneLen + 1] = Newline

\* the characters of the strings validated
PhoneChars == {"1", "a", Newline}

PhoneTexts == UNION {[1..n -> PhoneChars] : n \in 0..MaxPhoneTextLen}

ValIdle == v_text = <<>> /\ v_valid = "not called"

ValInit == v_text \in PhoneTexts /\ v_valid = "not called"

\* Phone.validate_phone(value)
ValidatePhone ==
    /\ v_valid = "not called"
    /\ v_valid' = IF validate_phone(v_text) THEN "True" ELSE "False"
    /\ UNCHANGED v_text
    /\ UNCHANGED otherThanVal

ValNext == ValidatePhone

-----------------------------------------------------------------------------
(* edit_record(book) of the two programs: in the ID-keyed program ("id") the
   book is keyed by int and a name, a phone and an email are edited; in the
   name-keyed program ("name") the book is keyed by str and a name and a phone
   are edited *)

\* str.isdigit() on the characters the model uses
isdigit(s) == s # <<>> /\ \A i \in 1..Len(s) : s[i] \in Digits

Alnum ==
    {"a", "b", "c", "d", "e", "f", "g", "h", "i", "j", "k", "l", "m", "n", "o",
     "p", "q", "r", "s", "t", "u", "v", "w", "x", "y", "z",
     "A", "B", "C", "D", "E", "F", "G", "H", "I", "J", "K", "L", "M", "N", "O",
     "P", "Q", "R", "S", "T", "U", "V", "W", "X", "Y", "Z"} \cup Digits

\* re.compile(r"^[a-zA-Z0-9_.+-]+@[a-zA-Z0-9-]+\.[a-zA-Z0-9-.]+$").match(value)
\* is not None: value[i] is the "@" and value[j] the "." of the pattern
validate_email(value) ==
    LET end == IF value # <<>> /\ value[Len(value)] = Newline
               THEN Len(value) - 1 ELSE Len(value)
    IN  \E i \in 2..end : \E j \in (i + 2)..(end - 1) :
            /\ value[i] = "@"
            /\ value[j] = "."
            /\ \A k \in 1..(i - 1) : value[k] \in Alnum \cup {"_", ".", "+", "-"}
            /\ \A k \in (i + 1)..(j - 1) : value[k] \in Alnum \cup {"-"}
            /\ \A k \in (j + 1)..end : value[k] \in Alnum \cup {"-", "."}

\* the position (from 1) the typed index picks in lst, 0 when the text is not
\* digits or the index is out of range: isdigit(), idx = int(text) - 1,
\* 0 <= idx < len(lst)
PickedIndex(lst, text) ==
    IF isdigit(text) /\ int(text).val - 1 >= 0 /\ int(text).val - 1 < Len(lst)
    THEN int(text).val ELSE 0

\* one of the two list edits of edit_record: the list after it, or the
\* ValueError of the Field constructor (raised) with the list as it was
EditListEntry(lst, index_text, new_text, valid) ==
    LET p == PickedIndex(lst, index_text)
    IN  IF p = 0 \/ strip(new_text) = <<>> THEN [raised |-> FALSE, list |-> lst]
        ELSE IF ~valid THEN [raised |-> TRUE, list |-> lst]
        ELSE [raised |-> FALSE,
              list |-> edit_phone(lst, [pos |-> p, value |-> lst[p]], NewField(new_text)).list]

\* the edits of the record found: the name, then a phone, then (ID-keyed
\* program) an email; an exception of the phone edit leaves the function
\* before the email edit
EditFields(record, typed, program) ==
    LET named  == IF strip(typed.new_name_input) # <<>>
                  THEN [record EXCEPT !.name = typed.new_name_input] ELSE record
        phones == EditListEntry(named.phone_numbers, typed.phone_to_edit,
                                typed.new_phone_number,
                                validate_phone(typed.new_phone_number))
        emails == IF program = "id"
                  THEN EditListEntry(named.email_addresses, typed.email_to_edit,
                                     typed.new_email, validate_email(typed.new_email))
                  ELSE [raised |-> FALSE, list |-> named.email_addresses]
    IN  IF phones.raised THEN [raised |-> TRUE, record |-> named]
        ELSE [raised |-> emails.raised,
              record |-> [named EXCEPT !.phone_numbers = phones.list,
                                       !.email_addresses = emails.list]]

\* key == text for a key of the book and a str: the keys of the ID-keyed book
\* are int, and an int is never equal to a str
KeyEq(program, key, text) == program = "name" /\ key = text

\* name_to_edit in book.data
InData(d, program, text) == \E i \in 1..Len(d) : KeyEq(program, d[i].key, text)

\* edit_record: the record is looked up under the typed name as key and is
\* edited in place; its key is left as it is
edit_record(d, program, name_to_edit, typed) ==
    IF InData(d, program, name_to_edit)
    THEN LET e == EditFields(d[Get(d, name_to_edit)].rec, typed, program)
         IN  [found |-> TRUE, raised |-> e.raised,
              data |-> DictSet(d, name_to_edit, e.record)]
    ELSE [found |-> FALSE, raised |-> FALSE, data |-> d]

\* what is typed at the prompts of edit_record in the name-keyed program, which
\* has no email prompts
EditInputs ==
    [new_name_input : {<<>>, NameJan, NameAnna},
     phone_to_edit : {<<>>, <<"1">>},
     new_phone_number : {Phone2, <<"1", "2">>},
     email_to_edit : {<<>>},
     new_email : {<<>>}]

\* what is typed at the prompts of edit_record in the ID-keyed program
IdEditInputs ==
    [new_name_input : {NameAnna},
     phone_to_edit : {<<>>},
     new_phone_number : {Phone2},
     email_to_edit : {<<"1">>},
     new_email : {Email2}]

\* the names typed at the first prompt of edit_record in the ID-keyed program
EditNames == {NameJan, NameAnna, <<"1">>}

\* contact action 4 of the ID-keyed program: edit_record(book)
EditRecord(name_to_edit, typed) ==
    /\ pc = "running"
    /\ LET r == edit_record(data, "id", name_to_edit, typed)
       IN  /\ data' = r.data
           /\ last' = [op |-> "edit_record", id |-> 0, ok |-> r.found, after |-> pc]
    /\ reuse' = NoReuse
    /\ UNCHANGED <<pc, next_id, free_ids, file>>
    /\ UNCHANGED otherThanId

IdNext ==
    \/ \E record \in RecordPool : AddRecord(record)
    \/ \E t \in IdTexts : DeleteRecordById(t)
    \/ \E n \in NameTexts, t \in IdTextsByName : DeleteRecord(n, t)
    \/ \E n \in EditNames, typed \in IdEditInputs : EditRecord(n, typed)
    \/ Exit
    \/ ExitSaveFails
    \/ Start

\* contact action 4 of the name-keyed program: edit_record(book)
NameEditRecord(name_to_edit, typed) ==
    /\ LET r == edit_record(n_data, "name", name_to_edit, typed)
       IN  /\ n_data' = r.data
           /\ n_last' = [NoQuery EXCEPT !.op = IF r.found THEN "edit_record"
                                               ELSE "edit_record: not found",
                                        !.raised = r.raised]
    /\ n_today' = NoDate
    /\ UNCHANGED otherThanName

NameNext ==
    \/ \E record \in NamePool : NameAddRecord(record)
    \/ \E name \in {NameJan, NameAnna} : NameDeleteRecord(name)
    \/ \E days \in DayCounts, today \in QueryDates : UpcomingBirthdays(days, today)
    \/ \E name \in {NameJan, NameAnna}, typed \in EditInputs : NameEditRecord(name, typed)

-----------------------------------------------------------------------------
(* AssistantBot of the name-keyed program.  __init__ loads the notes and the
   book; main() runs the main menu, the contact menu and the notes menu, and
   after the main loop saves the book and the notes.  No call in main() is
   inside a try: an exception that reaches main() ends the process ("crashed")
   before the two saves.  The tag choices (7, 8, 9) of the notes menu are left
   out of the model. *)

\* the records create_record hands to add_record
BotPool ==
    {Record(NameJan, <<Phone1>>, <<>>, None),
     Record(NameAnna, <<>>, <<>>, <<2000, 2, 29>>)}

\* the values of datetime.now() during a menu action
BotNows == {[y |-> y, m |-> 1, d |-> 1, s |-> 0] : y \in Years}

\* datetime.now().date()
DateOf(now) == [y |-> now.y, m |-> now.m, d |-> now.d]

\* the records of found_records
FoundEntries(d, search_term) == SelectSeq(d, LAMBDA e : FoundFor(e, search_term) # <<>>)

\* print(record) for each of the records raises: Record.__str__ calls
\* days_to_birthday for a record with a birthday
PrintRaises(entries, now) ==
    \E i \in 1..Len(entries) :
        /\ entries[i].rec.birthdate # None
        /\ days_to_birthday(entries[i].rec.birthdate, now).kind = "ValueError"

\* load_address_book of the name-keyed program: the dict of the file, or an
\* empty book when the file is missing or unreadable
load_address_book_by_name(fl) ==
    IF fl.kind # "pickle" THEN <<>> ELSE pickle_load(fl.items)

\* Note(content); the creation time is not modelled
Note(content) == [content |-> content, tags |-> <<>>]

\* Notebook.add_note
add_note(notes, note_content) == Append(notes, Note(note_content))

\* Notebook.delete_note
delete_note(notes, note_id) ==
    IF 1 <= note_id /\ note_id <= Len(notes)
    THEN SubSeq(notes, 1, note_id - 1) \o SubSeq(notes, note_id + 1, Len(notes))
    ELSE notes

\* Notebook.save_notes when the write succeeds
save_notes(notes) == [kind |-> "pickle", items |-> notes]

\* Notebook.load_notes: the list of the file, an empty list when the file is
\* missing, the notes as they were when it is unreadable
load_notes(fl, notes) ==
    CASE fl.kind = "pickle" -> fl.items
      [] fl.kind = "missing" -> <<>>
      [] OTHER -> notes

\* what is typed at the prompts of edit_record
BotEditInputs ==
    [new_name_input : {<<>>, NameAnna},
     phone_to_edit : {<<"1">>},
     new_phone_number : {Phone2, <<"1", "2">>},
     email_to_edit : {<<>>},
     new_email : {<<>>}]

\* texts typed where main() calls int(input(...))
NumberTexts == {<<"1">>, <<"5">>, <<"x">>}

BotTerms == {<<"a">>, <<"9">>}

NoChoice == [op |-> "none", error |-> "none"]

\* the state after AssistantBot() with no files on disk
BotInit ==
    /\ b_pc = "main"
    /\ b_book = <<>>
    /\ b_notes = <<>>
    /\ b_file = [book |-> NoFile, notes |-> NoFile]
    /\ b_last = NoChoice

\* a new process after the last one ended: AssistantBot.__init__
BotStart ==
    /\ b_pc \in {"crashed", "saved"}
    /\ b_pc' = "main"
    /\ b_notes' = load_notes(b_file.notes, <<>>)
    /\ b_book' = load_address_book_by_name(b_file.book)
    /\ b_last' = [op |-> "start", error |-> "none"]
    /\ UNCHANGED b_file
    /\ UNCHANGED otherThanBot

\* main menu, action 1
MainContacts ==
    /\ b_pc = "main"
    /\ b_pc' = "contacts"
    /\ b_last' = [op |-> "main 1", error |-> "none"]
    /\ UNCHANGED <<b_book, b_notes, b_file>>
    /\ UNCHANGED otherThanBot

\* main menu, action 2
MainNotes ==
    /\ b_pc = "main"
    /\ b_pc' = "notes"
    /\ b_last' = [op |-> "main 2", error |-> "none"]
    /\ UNCHANGED <<b_book, b_notes, b_file>>
    /\ UNCHANGED otherThanBot

\* main menu, action 3: break, then save_address_book and save_notes; the
\* process ends
MainExit ==
    /\ b_pc = "main"
    /\ b_pc' = "saved"
    /\ b_file' = [book |-> save_address_book(b_book), notes |-> save_notes(b_notes)]
    /\ b_book' = <<>>
    /\ b_notes' = <<>>
    /\ b_last' = [op |-> "main 3", error |-> "none"]
    /\ UNCHANGED otherThanBot

\* main menu, any other text
MainOther ==
    /\ b_pc = "main"
    /\ b_last' = [op |-> "main ?", error |-> "none"]
    /\ UNCHANGED <<b_pc, b_book, b_notes, b_file>>
    /\ UNCHANGED otherThanBot

\* contact action 1: create_record, self.book.add_record
ContactAdd(record) ==
    /\ b_pc = "contacts"
    /\ b_book' = add_record_by_name(b_book, record)
    /\ b_last' = [op |-> "contact 1", error |-> "none"]
    /\ UNCHANGED <<b_pc, b_notes, b_file>>
    /\ UNCHANGED otherThanBot

\* contact action 2: self.book.find_record, print(record) for each found
ContactFind(search_term, now) ==
    /\ b_pc = "contacts"
    /\ LET error == IF PrintRaises(FoundEntries(b_book, search_term), now)
                    THEN "ValueError" ELSE "none"
       IN  /\ b_pc' = IF error = "none" THEN b_pc ELSE "crashed"
           /\ b_book' = IF error = "none" THEN b_book ELSE <<>>
           /\ b_notes' = IF error = "none" THEN b_notes ELSE <<>>
           /\ b_last' = [op |-> "contact 2", error |-> error]
    /\ UNCHANGED b_file
    /\ UNCHANGED otherThanBot

\* contact action 3: self.book.delete_record_by_id(); this AddressBook has no
\* attribute of that name, so the call raises AttributeError
ContactDelete ==
    /\ b_pc = "contacts"
    /\ b_pc' = "crashed"
    /\ b_book' = <<>>
    /\ b_notes' = <<>>
    /\ b_last' = [op |-> "contact 3", error |-> "AttributeError"]
    /\ UNCHANGED b_file
    /\ UNCHANGED otherThanBot

\* contact action 4: edit_record(self.book)
ContactEdit(name_to_edit, typed) ==
    /\ b_pc = "contacts"
    /\ LET r == edit_record(b_book, "name", name_to_edit, typed)
       IN  /\ b_pc' = IF r.raised THEN "crashed" ELSE b_pc
           /\ b_book' = IF r.raised THEN <<>> ELSE r.data
           /\ b_notes' = IF r.raised THEN <<>> ELSE b_notes
           /\ b_last' = [op |-> "contact 4",
                         error |-> IF r.raised THEN "ValueError" ELSE "none"]
    /\ UNCHANGED b_file
    /\ UNCHANGED otherThanBot

\* contact action 5: self.book.show_all_records()
ContactShow(now) ==
    /\ b_pc = "contacts"
    /\ LET error == IF PrintRaises(b_book, now) THEN "ValueError" ELSE "none"
       IN  /\ b_pc' = IF error = "none" THEN b_pc ELSE "crashed"
           /\ b_book' = IF error = "none" THEN b_book ELSE <<>>
           /\ b_notes' = IF error = "none" THEN b_notes ELSE <<>>
           /\ b_last' = [op |-> "contact 5", error |-> error]
    /\ UNCHANGED b_file
    /\ UNCHANGED otherThanBot

\* contact action 6: date = int(input(...)), self.book.upcoming_birthdays(date)
ContactUpcoming(text, now) ==
    /\ b_pc = "contacts"
    /\ LET error == IF ~int(text).ok
                       \/ upcoming_birthdays(b_book, int(text).val, DateOf(now)).raised
                    THEN "ValueError" ELSE "none"
       IN  /\ b_pc' = IF error = "none" THEN b_pc ELSE "crashed"
           /\ b_book' = IF error = "none" THEN b_book ELSE <<>>
           /\ b_notes' = IF error = "none" THEN b_notes ELSE <<>>
           /\ b_last' = [op |-> "contact 6", error |-> error]
    /\ UNCHANGED b_file
    /\ UNCHANGED otherThanBot

\* contact action 7: break
ContactBack ==
    /\ b_pc = "contacts"
    /\ b_pc' = "main"
    /\ b_last' = [op |-> "contact 7", error |-> "none"]
    /\ UNCHANGED <<b_book, b_notes, b_file>>
    /\ UNCHANGED otherThanBot

\* contact menu, any other text
ContactOther ==
    /\ b_pc = "contacts"
    /\ b_last' = [op |-> "contact ?", error |-> "none"]
    /\ UNCHANGED <<b_pc, b_book, b_notes, b_file>>
    /\ UNCHANGED otherThanBot

\* notes action 1: self.notebook.add_note
NotesAdd(note_content) ==
    /\ b_pc = "notes"
    /\ Len(b_notes) < MaxNotes
    /\ b_notes' = add_note(b_notes, note_content)
    /\ b_last' = [op |-> "notes 1", error |-> "none"]
    /\ UNCHANGED <<b_pc, b_book, b_file>>
    /\ UNCHANGED otherThanBot

\* notes actions 2 (show_notes) and 3 (pass), and any text that is no action
NotesOther ==
    /\ b_pc = "notes"
    /\ b_last' = [op |-> "notes ?", error |-> "none"]
    /\ UNCHANGED <<b_pc, b_book, b_notes, b_file>>
    /\ UNCHANGED otherThanBot

\* notes action 4: note_id = int(input(...)), self.notebook.delete_note(note_id)
NotesDelete(text) ==
    /\ b_pc = "notes"
    /\ b_pc' = IF int(text).ok THEN b_pc ELSE "crashed"
    /\ b_book' = IF int(text).ok THEN b_book ELSE <<>>
    /\ b_notes' = IF int(text).ok THEN delete_note(b_notes, int(text).val) ELSE <<>>
    /\ b_last' = [op |-> "notes 4",
                  error |-> IF int(text).ok THEN "none" ELSE "ValueError"]
    /\ UNCHANGED b_file
    /\ UNCHANGED otherThanBot

\* notes action 5: self.notebook.save_notes()
NotesSave ==
    /\ b_pc = "notes"
    /\ b_file' = [b_file EXCEPT !.notes = save_notes(b_notes)]
    /\ b_last' = [op |-> "notes 5", error |-> "none"]
    /\ UNCHANGED <<b_pc, b_book, b_notes>>
    /\ UNCHANGED otherThanBot

\* notes action 6: self.notebook.load_notes()
NotesLoad ==
    /\ b_pc = "notes"
    /\ b_notes' = load_notes(b_file.notes, b_notes)
    /\ b_last' = [op |-> "notes 6", error |-> "none"]
    /\ UNCHANGED <<b_pc, b_book, b_file>>
    /\ UNCHANGED otherThanBot

\* notes action 0: break
NotesBack ==
    /\ b_pc = "notes"
    /\ b_pc' = "main"
    /\ b_last' = [op |-> "notes 0", error |-> "none"]
    /\ UNCHANGED <<b_book, b_notes, b_file>>
    /\ UNCHANGED otherThanBot

BotNext ==
    \/ BotStart
    \/ MainContacts
    \/ MainNotes
    \/ MainExit
    \/ MainOther
    \/ \E record \in BotPool : ContactAdd(record)
    \/ \E search_term \in BotTerms, now \in BotNows : ContactFind(search_term, now)
    \/ ContactDelete
    \/ \E name \in {NameJan, NameAnna}, typed \in BotEditInputs : ContactEdit(name, typed)
    \/ \E now \in BotNows : ContactShow(now)
    \/ \E text \in NumberTexts, now \in BotNows : ContactUpcoming(text, now)
    \/ ContactBack
    \/ ContactOther
    \/ \E note_content \in {<<"n">>} : NotesAdd(note_content)
    \/ NotesOther
    \/ \E text \in NumberTexts : NotesDelete(text)
    \/ NotesSave
    \/ NotesLoad
    \/ NotesBack

-----------------------------------------------------------------------------
(* Specifications *)

FindIdle == f_data = <<>> /\ f_term = <<>> /\ f_found = NotSearched

DateIdle ==
    /\ d_birth = None
    /\ d_now = [y |-> FirstYear, m |-> 1, d |-> 1, s |-> 0]
    /\ d_days = NotCalled

\* the ID-keyed program
Init == IdInit /\ FindIdle /\ DateIdle /\ NameInit /\ RecInit /\ IterIdle /\ ValIdle /\ BotInit

Next == IdNext

Spec == Init /\ [][Next]_vars

\* find_record on every book and search term of the bounds
InitFind == IdInit /\ FindInit /\ DateIdle /\ NameInit /\ RecInit /\ IterIdle /\ ValIdle /\ BotInit

SpecFind == InitFind /\ [][FindNext]_vars

\* days_to_birthday on every birthdate and current time of the bounds
InitDate == IdInit /\ FindIdle /\ DateInit /\ NameInit /\ RecInit /\ IterIdle /\ ValIdle /\ BotInit

SpecDate == InitDate /\ [][DateNext]_vars

\* the name-keyed program
InitName == IdInit /\ FindIdle /\ DateIdle /\ NameInit /\ RecInit /\ IterIdle /\ ValIdle /\ BotInit

SpecName == InitName /\ [][NameNext]_vars

\* the calls on one Record's phone and email lists
InitRec == IdInit /\ FindIdle /\ DateIdle /\ NameInit /\ RecInit /\ IterIdle /\ ValIdle /\ BotInit

SpecRec == InitRec /\ [][RecNext]_vars

\* two for-loops over one book
InitIter == IdInit /\ FindIdle /\ DateIdle /\ NameInit /\ RecInit /\ IterInit /\ ValIdle /\ BotInit

SpecIter == InitIter /\ [][IterNext]_vars

\* validate_phone on every string of the bounds
InitVal == IdInit /\ FindIdle /\ DateIdle /\ NameInit /\ RecInit /\ IterIdle /\ ValInit /\ BotInit

SpecVal == InitVal /\ [][ValNext]_vars

\* AssistantBot.main of the name-keyed program
InitBot == IdInit /\ FindIdle /\ DateIdle /\ NameInit /\ RecInit /\ IterIdle /\ ValIdle /\ BotInit

SpecBot == InitBot /\ [][BotNext]_vars

-----------------------------------------------------------------------------
(* Claims about the ID-keyed AddressBook, checked under Spec *)

IsAddStep == last'.op = "add_record"

\* C1: add_record never assigns an identifier that is a key of the book: every
\* add_record step adds exactly one record, under an identifier that was not a
\* key, and leaves every stored record under its identifier; this holds after
\* any deletions and after save and load.
C1_AddNeverReusesLiveId ==
    [][IsAddStep =>
          /\ ~Has(data, last'.id)
          /\ Has(data', last'.id)
          /\ Len(data') = Len(data) + 1
          /\ Cardinality(Keys(data')) = Len(data')
          /\ \A k \in Keys(data) :
                Has(data', k) /\ Mapping(data')[k] = Mapping(data)[k]]_vars

\* C1 witness: a record was added to a loaded book that holds identifier 2 but
\* not 1 (next_id restarted at 1).
C1_Witness ==
    /\ last.op = "add_record"
    /\ last.id = 1
    /\ next_id = 2
    /\ Has(data, 2)

\* the first value from n on that is not a key of d
LeastUnusedFrom(n, d) == Min({k \in n..(n + Len(d)) : ~Has(d, k)})

\* C2: add_record assigns min(free_ids) and removes it from free_ids when
\* free_ids is not empty; otherwise it assigns the first value from next_id on
\* that is not in use and leaves next_id one above it.
C2_AllocationPolicy ==
    [][IsAddStep =>
          IF free_ids # {}
          THEN /\ last'.id = Min(free_ids)
               /\ free_ids' = free_ids \ {last'.id}
          ELSE /\ last'.id = LeastUnusedFrom(next_id, data)
               /\ next_id' = last'.id + 1
               /\ free_ids' = {}]_vars

\* C2 witness: with two identifiers freed, an add took one and left the other.
C2_Witness ==
    /\ last.op = "add_record"
    /\ free_ids # {}
    /\ \A j \in free_ids : last.id < j

Numeral(k) == <<CHOOSE c \in Digits : DigitVal(c) = k>>

\* text, spaces and a leading "ID:" aside, is the numeral of k
Denotes(text, k) ==
    LET t == SelectSeq(text, LAMBDA c : c # " ")
        u == IF Len(t) >= 3 /\ SubSeq(t, 1, 3) = <<"I", "D", ":">>
             THEN SubSeq(t, 4, Len(t)) ELSE t
    IN  k \in 0..9 /\ u = Numeral(k)

\* what deleting by the typed text must do to the book
DeleteEffect(text) ==
    LET ks == {k \in Keys(data) : Denotes(text, k)}
    IN  IF ks # {}
        THEN \E k \in ks :
                /\ Keys(data') = Keys(data) \ {k}
                /\ Len(data') = Len(data) - 1
                /\ \A j \in Keys(data') : Mapping(data')[j] = Mapping(data)[j]
                /\ free_ids' = free_ids \cup {k}
                /\ next_id' = next_id
        ELSE UNCHANGED <<data, free_ids, next_id>>

NameMatchesSome(name) ==
    \E i \in 1..Len(data) : IsSubstring(lower(name), lower(data[i].rec.name))

-----------------------------------------------------------------------------
(* Claims about find_record, checked under SpecFind *)

\* C6: each record appears at most once in the result of find_record, also
\* when the term matches more than one of its fields.
C6_FoundAtMostOnce ==
    f_found # NotSearched =>
        \A i, j \in 1..Len(f_found) : i # j => f_found[i] # f_found[j]

SameIgnoringCase(a, b) ==
    \/ a = b
    \/ {a, b} \in {{"a", "A"}, {"j", "J"}, {"n", "N"}}

\* s occurs in t, letter case ignored or not
OccursIn(s, t, ignore_case) ==
    \E off \in 0..(Len(t) - Len(s)) :
        \A j \in 1..Len(s) :
            IF ignore_case THEN SameIgnoringCase(s[j], t[off + j]) ELSE s[j] = t[off + j]

Matches(rec, term) ==
    \/ OccursIn(term, rec.name, TRUE)
    \/ \E i \in 1..Len(rec.phone_numbers) : OccursIn(term, rec.phone_numbers[i], FALSE)
    \/ \E i \in 1..Len(rec.email_addresses) : OccursIn(term, rec.email_addresses[i], FALSE)

\* C7: a record is in the result of find_record(term) exactly when the term
\* occurs in its name ignoring case, or occurs (case-sensitively) in one of its
\* phone or email values; the result follows the iteration order of the map.
C7_FoundIffMatches ==
    f_found # NotSearched =>
        /\ {f_found[i] : i \in 1..Len(f_found)}
              = {f_data[i].key : i \in {j \in 1..Len(f_data) : Matches(f_data[j].rec, f_term)}}
        /\ \A i, j \in 1..Len(f_found) :
              i < j => Get(f_data, f_found[i]) <= Get(f_data, f_found[j])

\* C7 witness: the term "aN" finds the second record of two by its name "Jan"
\* and not the first, whose email holds "J" but whose name, phones and emails
\* do not hold "aN".
C7_Witness ==
    /\ f_term = <<"a", "N">>
    /\ Len(f_data) = 2
    /\ f_data[1].rec.email_addresses # <<>>
    /\ f_found = <<2>>

-----------------------------------------------------------------------------
(* Claims about days_to_birthday, checked under SpecDate *)

\* C8: the value days_to_birthday returns for a record with a valid birthdate
\* is an integer from 0 to 366, at every current date and time.
C8_DaysInRange ==
    d_days.kind = "days" => d_days.days \in 0..366

\* C8 witness: a call just after the birthday's midnight that rolls over a
\* leap day returns 365.
C8_Witness ==
    /\ d_days.kind = "days"
    /\ d_days.days = 365
    /\ d_now.s > 0

\* the calendar days from the date of t to the next date, on or after it, with
\* the month and day of birthdate b
CalendarDaysToNext(b, t) ==
    LET today == Ordinal(t.y, t.m, t.d)
    IN  Min({Ordinal(y, b[2], b[3]) - today :
               y \in {yy \in t.y..(t.y + 8) :
                        ValidDate(yy, b[2], b[3]) /\ Ordinal(yy, b[2], b[3]) >= today}})

\* C9: days_to_birthday ignores the time of day: at any time on date D it
\* returns the calendar days from D to the next occurrence of the birthday on
\* or after D (0 on the birthday itself).
C9_CalendarDays ==
    d_days.kind = "days" => d_days.days = CalendarDaysToNext(d_birth, d_now)

\* C16: days_to_birthday returns a result without raising for every birthdate
\* that passed validation, 29 February included, in leap years and other years.
C16_NeverRaises ==
    d_days.kind # "ValueError"

-----------------------------------------------------------------------------
(* Claims about the name-keyed AddressBook, checked under SpecName *)

\* the birthday with month and day of b falls on a date from today to `days`
\* days after today
BirthdayWithin(b, today, days) ==
    \E y \in today.y..(today.y + 1) :
        /\ ValidDate(y, b[2], b[3])
        /\ Ordinal(y, b[2], b[3]) - Ordinal(today.y, today.m, today.d) \in 0..days

\* the names upcoming_birthdays is to select, in map order
UpcomingNames(d, today, days) ==
    LET chosen == SelectSeq(d, LAMBDA e : /\ e.rec.birthdate # None
                                          /\ BirthdayWithin(e.rec.birthdate, today, days))
    IN  [i \in 1..Len(chosen) |-> chosen[i].rec.name]

\* C10: upcoming_birthdays(days) selects exactly the records with a birthdate
\* whose next birthday is at most `days` calendar days after today, raising no
\* error: nothing for negative days, never a record without a birthdate.
C10_UpcomingExactly ==
    n_last.op = "upcoming_birthdays" =>
        /\ ~n_last.raised
        /\ n_last.names = UpcomingNames(n_data, n_today, n_last.days)

\* the selection of upcoming_birthdays whenever it raises no error
UpcomingWhenNoError ==
    (n_last.op = "upcoming_birthdays" /\ ~n_last.raised) =>
        n_last.names = UpcomingNames(n_data, n_today, n_last.days)

-----------------------------------------------------------------------------
(* More claims about the ID-keyed AddressBook, checked under Spec *)

\* C15: from one operation to the next, load_address_book included, next_id
\* never decreases, and after every operation it is greater than every key of
\* the book and every member of free_ids.
C15_NextIdAboveAll ==
    [][/\ next_id' >= next_id
       /\ \A k \in Keys(data') \cup free_ids' : k < next_id']_vars

\* C18: after any sequence of add_record, delete_record_by_id, save and load,
\* add_record assigns the smallest positive integer that is not a key of the
\* book.
C18_AddAssignsSmallestUnused ==
    [][IsAddStep => last'.id = LeastUnusedFrom(1, data)]_vars

\* some record of the book has the name
NameInBook(d, name) == \E i \in 1..Len(d) : d[i].rec.name = name

\* C17: in the ID-keyed program edit_record, given the name of a contact of
\* the book, finds that contact's record and applies the entered name edit to
\* it; it reports "not found" only when no record has that name.
C17_EditFindsByName ==
    [][\A n \in EditNames, typed \in IdEditInputs :
          EditRecord(n, typed) =>
             /\ last'.ok <=> NameInBook(data, n)
             /\ NameInBook(data, n) => NameInBook(data', typed.new_name_input)]_vars

-----------------------------------------------------------------------------
(* More claims about the name-keyed AddressBook, checked under SpecName *)

\* C19: in the name-keyed book, after any sequence of add_record, edit_record
\* and delete_record, every record is stored under the key equal to its
\* current name, so that a renamed record is found under its new name.
C19_KeyIsName ==
    \A i \in 1..Len(n_data) : n_data[i].key = n_data[i].rec.name

-----------------------------------------------------------------------------
(* Claims about one Record's phone and email lists, checked under SpecRec *)

\* lst without its i-th entry
Without(lst, i) == SubSeq(lst, 1, i - 1) \o SubSeq(lst, i + 1, Len(lst))

\* what the claim says a removal of p does: lst becomes after
RemovedByValue(lst, after, raised, p) ==
    LET hits == {i \in 1..Len(lst) : lst[i] = p.value}
    IN  IF hits = {}
        THEN raised /\ after = lst
        ELSE ~raised /\ after = Without(lst, Min(hits))

\* C11: remove_phone(p) removes the first entry of the phone list whose value
\* equals p's value, whether or not p is the object stored in the list, and
\* keeps the other entries in order; when no entry has that value the call
\* fails and the list is as it was.  The same for remove_email.
C11_RemoveByValue ==
    [][/\ \A p \in Passable(r_phones, PhoneValues) :
             RemovePhone(p) => RemovedByValue(r_phones, r_phones', r_last'.raised, p)
       /\ \A e \in Passable(r_emails, EmailValues) :
             RemoveEmail(e) => RemovedByValue(r_emails, r_emails', r_last'.raised, e)]_vars

\* what the claim says an edit does: lst becomes after
EditedWhole(lst, after, raised, old, v) ==
    /\ raised => after = lst
    /\ old.pos > 0 => ~raised
    /\ (\A i \in 1..Len(lst) : lst[i] # old.value) => raised
    /\ ~raised =>
          /\ old.pos > 0
          /\ after = Append(Without(lst, old.pos), v)
          /\ Len(after) = Len(lst)

\* C12: edit_phone(old, new) has no partial effect.  When it fails the phone
\* list is exactly as before, and it fails whenever no entry has old's value;
\* when old is an entry of the list it succeeds; when it succeeds exactly one
\* entry, old, was removed and new was appended, so the length is unchanged.
\* The same for edit_email.
C12_EditNoPartialEffect ==
    [][/\ \A old \in Passable(r_phones, PhoneValues), v \in PhoneValues :
             EditPhone(old, v) =>
                EditedWhole(r_phones, r_phones', r_last'.raised, old, v)
       /\ \A old \in Passable(r_emails, EmailValues), v \in EmailValues :
             EditEmail(old, v) =>
                EditedWhole(r_emails, r_emails', r_last'.raised, old, v)]_vars

\* C12 witness: edit_phone succeeded on a list of two entries; the list still
\* has two entries.
C12_Witness ==
    /\ r_last.op = "edit_phone"
    /\ ~r_last.raised
    /\ Len(r_phones) = 2
    /\ r_phones[1] = Phone1
    /\ r_phones[2] = Phone2

-----------------------------------------------------------------------------
(* Claims about the traversal in batches, checked under SpecIter *)

\* ceil(n / k)
CeilDiv(n, k) == (n + k - 1) \div k

\* the concatenation of a sequence of batches
RECURSIVE Flatten(_)
Flatten(batches) ==
    IF batches = <<>> THEN <<>> ELSE Head(batches) \o Flatten(Tail(batches))

\* the ids of all records of the book, in map order
AllIds == Ids(values(it_data))

\* C13: a traversal of an unchanged book of n records (no other traversal of
\* the book is started) ends after exactly ceil(n/5) batches; every batch is
\* non-empty and has at most 5 records, every batch but the last has exactly 5,
\* and the batches concatenated are the records of the book in map order, none
\* skipped or repeated.  While the traversal runs, the batches received are a
\* prefix of that.
C13_TraversalBatches ==
    \A c \in Loops :
        it_pc[Other(c)] = "idle" =>
            LET b == it_got[c]
                n == Len(it_data)
            IN  /\ Len(b) <= CeilDiv(n, BatchSize)
                /\ \A i \in 1..Len(b) :
                      /\ Len(b[i]) \in 1..BatchSize
                      /\ i < CeilDiv(n, BatchSize) => Len(b[i]) = BatchSize
                /\ Flatten(b) = SubSeq(AllIds, 1, Len(Flatten(b)))
                /\ it_pc[c] = "done" =>
                      /\ Len(b) = CeilDiv(n, BatchSize)
                      /\ Flatten(b) = AllIds

\* C13 witness: a single traversal of a book of 11 records has ended with 3
\* batches.
C13_Witness ==
    /\ it_pc.a = "done"
    /\ it_pc.b = "idle"
    /\ Len(it_data) = 11
    /\ Len(it_got.a) = 3
    /\ Len(it_got.a[3]) = 1

\* C20 as stated: when a second traversal was started before the first had
\* ended, each of the two traversals, once ended, has received every record of
\* the book exactly once.
C20_BothTraversalsComplete ==
    (it_pc.a = "done" /\ it_pc.b = "done" /\ it_pc.restarted = "yes") =>
        \A c \in Loops : Flatten(it_got[c]) = AllIds

\* C20: the traversals of one book share one cursor, which every iter call
\* resets to 0: the records yielded since the last iter call, to whichever
\* traversal, are the first records of the book in map order up to the cursor,
\* and once both traversals have ended they are all records of the book, each
\* exactly once.
C20_SharedCursor ==
    /\ it_since = SubSeq(AllIds, 1, Min({it_current, Len(it_data)}))
    /\ (it_pc.a = "done" /\ it_pc.b = "done") => it_since = AllIds

\* C20 witness: both traversals have ended, the second was started while the
\* first was running, the first received a record twice and the second missed
\* one.
C20_Witness ==
    /\ it_pc.a = "done"
    /\ it_pc.b = "done"
    /\ it_pc.restarted = "yes"
    /\ Len(Flatten(it_got.a)) > Len(it_data)
    /\ Len(Flatten(it_got.b)) < Len(it_data)

-----------------------------------------------------------------------------
(* Claims about validate_phone, checked under SpecVal *)

\* C14: validate_phone returns true for every string of exactly 9 digits and
\* false for every string of another length or with a character that is not a
\* digit, a 9-digit string followed by a newline included.
C14_ExactlyNineDigits ==
    v_valid # "not called" =>
        (v_valid = "True" <=>
            /\ Len(v_text) = PhoneLen
            /\ \A i \in 1..Len(v_text) : v_text[i] \in Digits)

-----------------------------------------------------------------------------
(* Claims about AssistantBot.main, checked under SpecBot *)

\* C21: in AssistantBot.main, contact action 3 (delete contact), chosen in any
\* book state, raises no error and leaves the program in the contact menu with
\* its book and notes in memory, so that a later exit still saves them.
C21_DeleteReturnsToMenu ==
    [][b_last'.op = "contact 3" =>
          /\ b_last'.error = "none"
          /\ b_pc' = "contacts"
          /\ b_notes' = b_notes
          /\ Keys(b_book') \subseteq Keys(b_book)]_vars

====
